---- MODULE Spec2Model ----
(***************************************************************************)
(* State-machine model of the jwplayer public facade (src/js/api/api.js)   *)
(* and of the process-wide instance registry (src/js/api/global-api.js).   *)
(*                                                                         *)
(* JavaScript runs one handler to completion, so a handler is a chain of   *)
(* steps linked by pc: while pc # "idle" only the next step of the running *)
(* handler is enabled.  The steps exist so that the states in the middle   *)
(* of setup() and remove() (the ones a listener called from inside them    *)
(* observes) are states of the model.                                      *)
(***************************************************************************)
EXTENDS Integers, Sequences, FiniteSets, TLC

VARIABLES
    instances,        \* api/players: the registry, a sequence of facade references
    instancesCreated, \* api.js:16
    uniqueIndex,      \* global-api.js:10 (_uniqueIndex)
    facades,          \* every Api object constructed so far; the index is the object's identity
    debug,            \* window.jwplayer.debug
    strict,           \* whether the build keeps module code strict (see AssignThrows)
    pc,               \* position of the running handler, "idle" when none runs
    cur,              \* the facade whose handler is running (0 when idle)
    opts,             \* options.events of the running setup()
    log               \* what the last step did and returned

vars == <<instances, instancesCreated, uniqueIndex, facades, debug, strict, pc, cur, opts, log>>

(***************************************************************************)
(* Bounds                                                                  *)
(***************************************************************************)
MaxFacades == 2      \* Api objects constructed in one run
MaxEngines == 3      \* engines constructed in one run (one per constructor, one per setup)
MaxListeners == 2    \* external listeners subscribed at one time

(***************************************************************************)
(* The page: three elements, two of them without an id attribute           *)
(* (element.id is then the empty string).                                  *)
(***************************************************************************)
DocOrder == <<"e1", "e2", "e3">>
Elements == {DocOrder[i] : i \in 1..Len(DocOrder)}
ElemId(e) == IF e = "e1" THEN "a" ELSE ""

NoElem == "none"

\* document.getElementById: the first element in document order with that id;
\* no element is found for the empty string.
GetElementById(s) ==
    IF s # "" /\ \E i \in 1..Len(DocOrder) : ElemId(DocOrder[i]) = s
    THEN DocOrder[CHOOSE i \in 1..Len(DocOrder) :
                    /\ ElemId(DocOrder[i]) = s
                    /\ \A j \in 1..(i-1) : ElemId(DocOrder[j]) # s]
    ELSE NoElem

\* The capabilities the Controller class exposes; "absent" names one it lacks.
ControllerMethods == {"setup", "playerDestroy", "play", "pause", "getState"}
CallNames == {"play", "absent"}

\* A property of the controller that is not a function: the store that its
\* on() creates for the handlers setupController subscribes.
ControllerData == {"_events"}
AllCallNames == CallNames \cup ControllerData \cup {"getState"}

\* Arguments passed through callInternal, and values an engine method returns.
CallArgs == {<< >>, <<"x">>}
EngineResults == {"v", "undefined"}

\* events/states, as the engine reports them.
EngineStates == {"idle", "buffering", "playing", "paused"}

PluginNames == {"p"}
PluginKinds == {"plain", "resizable"}

\* The subscriptions on() is called with.
Subscriptions ==
    {[name |-> "ready", cb |-> "cbOk"], [name |-> "remove", cb |-> "cbOk"],
     [name |-> "remove", cb |-> "cbThrow"]}
EngineEvents == {"ready"}

Idle == [op |-> "none"]

(***************************************************************************)
(* Events (utils/backbone.events)                                          *)
(***************************************************************************)
\* Events.on: append a subscription.
EventsOn(ls, name, cb) == Append(ls, [name |-> name, cb |-> cb])

\* Events.off() without arguments: every subscription is dropped.
EventsOffAll(ls) == << >>

\* The subscriptions trigger(name) calls, in order: those of name, then those of "all".
Matching(ls, name) ==
    SelectSeq(ls, LAMBDA l : l.name = name) \o SelectSeq(ls, LAMBDA l : l.name = "all")

FirstThrower(m) ==
    IF \E i \in 1..Len(m) : m[i].cb = "cbThrow"
    THEN CHOOSE i \in 1..Len(m) : m[i].cb = "cbThrow" /\ \A j \in 1..(i-1) : m[j].cb # "cbThrow"
    ELSE 0

\* Api.trigger calling Events.triggerSafe whatever the debug flag.
TriggerAlwaysSafe(ls, name, dbg) ==
    [invoked |-> Matching(ls, name), threw |-> FALSE]

\* Api.trigger: Events.trigger when the debug flag is set (a listener's exception
\* propagates and ends the delivery), Events.triggerSafe otherwise (each listener
\* is called in a try/catch).  The result: the listeners invoked and whether the
\* call raised.
Trigger(ls, name, dbg) ==
    LET m == Matching(ls, name)
        t == FirstThrower(m)
    IN  IF dbg /\ t > 0
        THEN [invoked |-> SubSeq(m, 1, t), threw |-> TRUE]
        ELSE [invoked |-> m, threw |-> FALSE]

(***************************************************************************)
(* api.js helpers                                                          *)
(***************************************************************************)
\* The payload of an engine event, and a call without a payload object.
EnginePayload == [obj |-> TRUE, data |-> "d", setupTime |-> "unset"]
NoPayload == [obj |-> FALSE, data |-> "unset", setupTime |-> "unset"]

\* Api.trigger: args = _.extend({}, args) for an object, {} otherwise; args.type = name.
Stamp(name, args) ==
    IF args.obj
    THEN [type |-> name, data |-> args.data, setupTime |-> args.setupTime]
    ELSE [type |-> name, data |-> "unset", setupTime |-> "unset"]

\* setupController subscribing the forwarding handler only.
BridgeListenersForwardOnly == <<[name |-> "all", cb |-> "forward"]>>

\* The handlers setupController subscribes to the controller.
BridgeListeners ==
    <<[name |-> "ready", cb |-> "tick"], [name |-> "all", cb |-> "forward"]>>

\* The controller triggers an event of the given type: its handlers run in the
\* order Events.trigger calls them.  "tick" is the JWPLAYER_READY handler
\* (_qoe.tick('ready'), event.setupTime = _qoe.between('setup', 'ready')),
\* "forward" is api.trigger(type, event).  The result: the timer afterwards, the
\* facade listeners called, the payload they were called with, whether the timer
\* had its 'ready' tick when they were called, and whether api.trigger raised.
Bridge(fac, type, dbg) ==
    LET hs == Matching(BridgeListeners, type)
        RECURSIVE Go(_, _)
        Go(acc, k) ==
            IF k > Len(hs) THEN acc
            ELSE IF hs[k].cb = "tick"
            THEN Go([acc EXCEPT !.qoe = @ \cup {"ready"},
                                !.event.setupTime =
                                    IF "setup" \in acc.qoe THEN "between" ELSE "unset"],
                    k + 1)
            ELSE LET r == Trigger(fac.listeners, type, dbg)
                 IN  Go([acc EXCEPT !.invoked = r.invoked, !.threw = r.threw,
                                    !.seen = Stamp(type, acc.event),
                                    !.ticked = "ready" \in acc.qoe],
                        k + 1)
    IN  Go([qoe |-> fac.qoe, event |-> EnginePayload, invoked |-> << >>,
            threw |-> FALSE, seen |-> Stamp(type, NoPayload), ticked |-> FALSE], 1)

\* setupController: a new Controller whose 'ready' and 'all' events are bridged
\* to the facade.
SetupController(fac) ==
    [fac EXCEPT !.gen = @ + 1, !.bridged = @ \cup {fac.gen + 1}, !.configured = FALSE]

\* resetPlayer without its controller.off().
ResetPlayerKeepsBridge(fac) ==
    [fac EXCEPT !.listeners = << >>,
                !.destroyed = IF "playerDestroy" \in ControllerMethods
                              THEN @ \cup {fac.gen} ELSE @]

\* resetPlayer without its api.off().
ResetPlayerKeepsListeners(fac) ==
    [fac EXCEPT !.bridged = @ \ {fac.gen},
                !.destroyed = IF "playerDestroy" \in ControllerMethods
                              THEN @ \cup {fac.gen} ELSE @]

\* resetPlayer: api.off(); controller.off(); controller.playerDestroy() if exposed.
ResetPlayer(fac) ==
    [fac EXCEPT !.listeners = EventsOffAll(@),
                !.bridged = @ \ {fac.gen},
                !.destroyed = IF "playerDestroy" \in ControllerMethods
                              THEN @ \cup {fac.gen} ELSE @]

PlayerIndexById(reg, fs, id) ==
    IF \E i \in 1..Len(reg) : fs[reg[i]].id = id
    THEN CHOOSE i \in 1..Len(reg) :
            /\ fs[reg[i]].id = id
            /\ \A j \in 1..(i-1) : fs[reg[j]].id # id
    ELSE 0

\* removePlayer: scan from the end, splice out the first entry with the same uniqueId.
RemoveIndex(reg, fs, f) ==
    IF \E i \in 1..Len(reg) : fs[reg[i]].uniqueId = fs[f].uniqueId
    THEN CHOOSE i \in 1..Len(reg) :
            /\ fs[reg[i]].uniqueId = fs[f].uniqueId
            /\ \A j \in (i+1)..Len(reg) : fs[reg[j]].uniqueId # fs[f].uniqueId
    ELSE 0

\* removePlayer comparing the element ids instead of the unique ids.
RemovePlayerById(reg, fs, f) ==
    LET p == PlayerIndexById(reg, fs, fs[f].id)
    IN  IF p = 0 THEN reg ELSE SubSeq(reg, 1, p-1) \o SubSeq(reg, p+1, Len(reg))

\* removePlayer splicing at the loop index also when nothing matched (i is then -1,
\* and splice(-1, 1) drops the last entry).
RemovePlayerSpliceAlways(reg, fs, f) ==
    LET i == RemoveIndex(reg, fs, f)
    IN  IF i = 0
        THEN SubSeq(reg, 1, Len(reg) - 1)
        ELSE SubSeq(reg, 1, i-1) \o SubSeq(reg, i+1, Len(reg))

RemovePlayer(reg, fs, f) ==
    LET i == RemoveIndex(reg, fs, f)
    IN  IF i = 0 THEN reg ELSE SubSeq(reg, 1, i-1) \o SubSeq(reg, i+1, Len(reg))

\* new Api(element) up to the end of the constructor.
NewApi(e, n) ==
    [uniqueId |-> n, id |-> ElemId(e), elem |-> e,
     gen |-> 0, bridged |-> {}, destroyed |-> {}, configured |-> FALSE,
     listeners |-> << >>, qoe |-> {"init"},
     plugins |-> [pn \in PluginNames |-> "undefined"],
     \* history: the id the constructor drew, remove() was called, _addPlayer pushed it
     born |-> n, removed |-> FALSE, registered |-> FALSE]

\* The constructor without its setupController call.
ApiWithoutEngine(e, n) == NewApi(e, n)

Api(e, n) == SetupController(NewApi(e, n))

TotalEngines ==
    LET RECURSIVE Sum(_)
        Sum(k) == IF k = 0 THEN 0 ELSE facades[k].gen + Sum(k-1)
    IN  Sum(Len(facades))

\* The facades a caller holds a reference to.
Held == 1..Len(facades)

\* The environment subscribes each (name, callback) pair at most once to a facade
\* and keeps its listeners on one facade at a time.
MaySubscribe(f, ls, n) ==
    /\ Len(ls) + n <= MaxListeners
    /\ \A g \in 1..Len(facades) : g # f => facades[g].listeners = << >>

(***************************************************************************)
(* Initial state                                                           *)
(***************************************************************************)
Init ==
    /\ instances = << >>
    /\ instancesCreated = 0
    /\ uniqueIndex = 0
    /\ facades = << >>
    /\ debug = FALSE
    /\ strict \in BOOLEAN
    /\ pc = "idle"
    /\ cur = 0
    /\ opts = << >>
    /\ log = Idle

(***************************************************************************)
(* new Api(element), called directly                                       *)
(***************************************************************************)
Construct(e) ==
    /\ pc = "idle"
    /\ instancesCreated < MaxFacades
    /\ TotalEngines < MaxEngines
    /\ facades' = Append(facades, Api(e, instancesCreated))
    /\ instancesCreated' = instancesCreated + 1
    /\ log' = [op |-> "construct", f |-> Len(facades) + 1]
    /\ UNCHANGED <<instances, uniqueIndex, debug, strict, pc, cur, opts>>

(***************************************************************************)
(* global-api.js                                                           *)
(***************************************************************************)
Queries ==
    {[t |-> "none"], [t |-> "object"]}
    \cup {[t |-> "string", s |-> s] : s \in {"a", "", "zz"}}
    \cup {[t |-> "number", n |-> n] : n \in {0, 1, MaxFacades}}
    \cup {[t |-> "element", e |-> e] : e \in Elements}

\* !query: undefined/null, the empty string and the number 0 are falsy.
Falsy(q) ==
    \/ q.t = "none"
    \/ q.t = "string" /\ q.s = ""
    \/ q.t = "number" /\ q.n = 0

\* _playerById finding no instance for the empty id.
PlayerByIdNamed(reg, fs, id) ==
    LET p == PlayerIndexById(reg, fs, id) IN IF p = 0 \/ id = "" THEN 0 ELSE reg[p]

\* _playerById: the first registered instance whose id is the given one (0: null).
PlayerById(reg, fs, id) ==
    LET p == PlayerIndexById(reg, fs, id) IN IF p = 0 THEN 0 ELSE reg[p]

\* A lookup by the order of construction: the (n+1)-th facade built, if registered.
InstanceAtCreation(reg, n) ==
    IF \E i \in 1..Len(reg) : reg[i] = n + 1 THEN n + 1 ELSE 0

\* instances[n] for a 0-based n (0: undefined).
InstanceAt(reg, n) == IF n + 1 \in 1..Len(reg) THEN reg[n + 1] ELSE 0

\* The first half of selectPlayer: the player and the element the query resolves to.
Resolve(q, reg, fs) ==
    IF Falsy(q) THEN [player |-> InstanceAt(reg, 0), dom |-> NoElem]
    ELSE IF q.t = "string"
         THEN LET p == PlayerById(reg, fs, q.s)
              IN  [player |-> p, dom |-> IF p = 0 THEN GetElementById(q.s) ELSE NoElem]
    ELSE IF q.t = "number" THEN [player |-> InstanceAt(reg, q.n), dom |-> NoElem]
    ELSE IF q.t = "element" THEN [player |-> PlayerById(reg, fs, ElemId(q.e)), dom |-> q.e]
    ELSE [player |-> 0, dom |-> NoElem]

\* api.uniqueId = v on an Api object: uniqueId is an accessor property with a getter
\* and no setter (api.js:66-70), so the value read afterwards is the old one.
AssignUniqueIdWritable(fac, v) == [fac EXCEPT !.uniqueId = v]

AssignUniqueId(fac, v) == fac

\* Whether that assignment raises.  global-api.js is module code (it starts with an
\* import declaration), where assigning to a getter-only property is a TypeError; a
\* build that emits the module as sloppy-mode code ignores the assignment silently.
AssignThrows == strict

SelectPlayer(q) ==
    /\ pc = "idle"
    /\ LET r == Resolve(q, instances, facades)
           n == Len(facades) + 1
       IN  IF r.player # 0
           THEN /\ log' = [op |-> "select", q |-> q, result |-> "player", f |-> r.player,
                           pre |-> instances]
                /\ UNCHANGED <<instances, instancesCreated, uniqueIndex, facades>>
           ELSE IF r.dom # NoElem
           THEN /\ instancesCreated < MaxFacades
                /\ TotalEngines < MaxEngines
                /\ instancesCreated' = instancesCreated + 1
                /\ uniqueIndex' = uniqueIndex + 1
                /\ IF AssignThrows
                   THEN \* the Api object was constructed, and no reference to it is left
                        /\ log' = [op |-> "select", q |-> q, result |-> "throw", f |-> 0,
                                   pre |-> instances]
                        /\ UNCHANGED <<instances, facades>>
                   ELSE /\ facades' = Append(facades,
                                        [AssignUniqueId(Api(r.dom, instancesCreated), uniqueIndex')
                                            EXCEPT !.registered = TRUE])
                        /\ instances' = Append(instances, n)
                        /\ log' = [op |-> "select", q |-> q, result |-> "created", f |-> n,
                                   pre |-> instances]
           ELSE /\ log' = [op |-> "select", q |-> q, result |-> "degraded", f |-> 0,
                           pre |-> instances]
                /\ UNCHANGED <<instances, instancesCreated, uniqueIndex, facades>>
    /\ UNCHANGED <<debug, strict, pc, cur, opts>>

(***************************************************************************)
(* Api.setup                                                               *)
(***************************************************************************)
\* options.events: a list of (key, value) entries.
EventOptions ==
    {<< >>, <<[key |-> "onReady", val |-> "cbOk"]>>, <<[key |-> "bogus", val |-> "cbOk"]>>,
     <<[key |-> "bogus", val |-> "cbThrow"], [key |-> "onReady", val |-> "cbOk"]>>}

\* The test of setup() accepting every key.
IsFacadeMethodAlways(key) == TRUE

\* typeof this[key] === 'function'
IsFacadeMethod(key) == key \in {"onReady"}

\* this[key](val) for the keys above: onReady(callback) is on('ready', callback).
ApplyEventOption(ls, entry) ==
    IF IsFacadeMethod(entry.key) THEN EventsOn(ls, "ready", entry.val) ELSE ls

ApplyEventOptions(ls, o) ==
    LET RECURSIVE Go(_, _)
        Go(acc, k) == IF k > Len(o) THEN acc ELSE Go(ApplyEventOption(acc, o[k]), k + 1)
    IN  Go(ls, 1)

\* this._qoe.tick('setup').  The log keeps the listeners subscribed when setup() was
\* called and the options.events it was called with.
SetupBegin(f, o) ==
    /\ pc = "idle"
    /\ f \in Held
    /\ TotalEngines < MaxEngines
    /\ o # << >> => MaySubscribe(f, << >>, Len(o))
    /\ facades' = [facades EXCEPT ![f].qoe = @ \cup {"setup"}]
    /\ pc' = "setup_reset"
    /\ cur' = f
    /\ opts' = o
    /\ log' = [op |-> "setup", f |-> f, step |-> "tick",
               had |-> facades[f].listeners, o |-> o]
    /\ UNCHANGED <<instances, instancesCreated, uniqueIndex, debug, strict>>

\* resetPlayer(this, _controller)
SetupReset ==
    /\ pc = "setup_reset"
    /\ facades' = [facades EXCEPT ![cur] = ResetPlayer(@)]
    /\ pc' = "setup_controller"
    /\ log' = [op |-> "setup", f |-> cur, step |-> "reset", had |-> log.had, o |-> log.o]
    /\ UNCHANGED <<instances, instancesCreated, uniqueIndex, debug, strict, cur, opts>>

\* _controller = setupController(this, element)
SetupNewController ==
    /\ pc = "setup_controller"
    /\ facades' = [facades EXCEPT ![cur] = SetupController(@)]
    /\ pc' = "setup_events"
    /\ log' = [op |-> "setup", f |-> cur, step |-> "controller", had |-> log.had, o |-> log.o]
    /\ UNCHANGED <<instances, instancesCreated, uniqueIndex, debug, strict, cur, opts>>

\* utils.foreach(options.events, ...)
SetupEvents ==
    /\ pc = "setup_events"
    /\ facades' = [facades EXCEPT ![cur].listeners = ApplyEventOptions(@, opts)]
    /\ pc' = "setup_forward"
    /\ log' = [op |-> "setup", f |-> cur, step |-> "events", had |-> log.had, o |-> log.o]
    /\ UNCHANGED <<instances, instancesCreated, uniqueIndex, debug, strict, cur, opts>>

\* options.id = this.id; _controller.setup(options, this); return this
SetupForward ==
    /\ pc = "setup_forward"
    /\ facades' = [facades EXCEPT ![cur].configured = "setup" \in ControllerMethods]
    /\ pc' = "idle"
    /\ cur' = 0
    /\ opts' = << >>
    /\ log' = [op |-> "setup", f |-> cur, step |-> "done", had |-> log.had, o |-> log.o]
    /\ UNCHANGED <<instances, instancesCreated, uniqueIndex, debug, strict>>

(***************************************************************************)
(* Api.remove                                                              *)
(***************************************************************************)
\* remove() tearing the player down before it notifies the listeners.
RemoveBeginTearsDownFirst(f) ==
    /\ pc = "idle"
    /\ f \in Held
    /\ instances' = RemovePlayer(instances, facades, f)
    /\ facades' = [facades EXCEPT ![f] = ResetPlayer([@ EXCEPT !.removed = TRUE])]
    /\ pc' = "remove_trigger"
    /\ cur' = f
    /\ log' = [op |-> "remove", f |-> f, step |-> "unregister",
               again |-> facades[f].removed, pre |-> instances, before |-> facades[f]]
    /\ UNCHANGED <<instancesCreated, uniqueIndex, debug, strict, opts>>

\* removePlayer(this).  The log keeps the registry and the facade as they were when
\* remove() was called.
RemoveBegin(f) ==
    /\ pc = "idle"
    /\ f \in Held
    /\ instances' = RemovePlayer(instances, facades, f)
    /\ facades' = [facades EXCEPT ![f].removed = TRUE]
    /\ pc' = "remove_trigger"
    /\ cur' = f
    /\ log' = [op |-> "remove", f |-> f, step |-> "unregister",
               again |-> facades[f].removed, pre |-> instances, before |-> facades[f]]
    /\ UNCHANGED <<instancesCreated, uniqueIndex, debug, strict, opts>>

\* this.trigger('remove'): each listener called observes the state of this step.
RemoveTrigger ==
    /\ pc = "remove_trigger"
    /\ LET r == Trigger(facades[cur].listeners, "remove", debug)
       IN  /\ log' = [op |-> "remove", f |-> cur, step |-> "trigger",
                      again |-> log.again, pre |-> log.pre, before |-> log.before,
                      invoked |-> r.invoked, threw |-> r.threw]
           /\ IF r.threw
              THEN pc' = "idle" /\ cur' = 0
              ELSE pc' = "remove_reset" /\ cur' = cur
    /\ UNCHANGED <<instances, instancesCreated, uniqueIndex, facades, debug, strict, opts>>

\* resetPlayer(this, _controller); return this
RemoveReset ==
    /\ pc = "remove_reset"
    /\ facades' = [facades EXCEPT ![cur] = ResetPlayer(@)]
    /\ pc' = "idle"
    /\ cur' = 0
    /\ log' = [op |-> "remove", f |-> cur, step |-> "done",
               again |-> log.again, pre |-> log.pre, before |-> log.before,
               invoked |-> log.invoked, threw |-> FALSE]
    /\ UNCHANGED <<instances, instancesCreated, uniqueIndex, debug, strict, opts>>

(***************************************************************************)
(* on, callInternal, engine events, the debug flag                         *)
(***************************************************************************)
On(f, name, cb) ==
    /\ pc = "idle"
    /\ f \in Held
    /\ MaySubscribe(f, facades[f].listeners, 1)
    /\ \A i \in 1..Len(facades[f].listeners) :
            facades[f].listeners[i] # [name |-> name, cb |-> cb]
    /\ facades' = [facades EXCEPT ![f].listeners = EventsOn(@, name, cb)]
    /\ log' = [op |-> "on", f |-> f]
    /\ UNCHANGED <<instances, instancesCreated, uniqueIndex, debug, strict, pc, cur, opts>>

\* The controller callInternal reads: the closure variable _controller, which holds
\* the controller built last, also after remove() destroyed it.
CallTarget(fac) == fac.gen

\* callInternal(name, ...args) when the engine method, if called, returns ret:
\* _controller[name] is tested for truthiness, then its apply is called.  A truthy
\* property that is no function has no apply, and calling it is a TypeError.
CallInternalResult(fac, m, args, ret) ==
    IF m \in ControllerMethods
    THEN [calls |-> <<[g |-> CallTarget(fac), m |-> m, args |-> args]>>,
          result |-> ret, threw |-> FALSE]
    ELSE IF m \in ControllerData
    THEN [calls |-> << >>, result |-> "none", threw |-> TRUE]
    ELSE [calls |-> << >>, result |-> "null", threw |-> FALSE]

CallInternal(f, m, args, ret) ==
    /\ pc = "idle"
    /\ f \in Held
    /\ LET r == CallInternalResult(facades[f], m, args, ret)
       IN  log' = [op |-> "call", f |-> f, g |-> CallTarget(facades[f]), m |-> m,
                   args |-> args, ret |-> ret, invoked |-> r.calls # << >>,
                   calls |-> r.calls, result |-> r.result, threw |-> r.threw]
    /\ UNCHANGED <<instances, instancesCreated, uniqueIndex, facades, debug, strict, pc, cur, opts>>

(***************************************************************************)
(* Api.play, Api.pause                                                     *)
(***************************************************************************)
\* The values play() and pause() are called with: booleans, undefined, an object
\* with a reason, a string; the metadata: none, an object with a reason, one without.
Undefined == [t |-> "undefined", b |-> FALSE, reason |-> "none"]
Bool(b) == [t |-> "bool", b |-> b, reason |-> "none"]
Object(reason) == [t |-> "object", b |-> FALSE, reason |-> reason]
PlayStates == {Bool(TRUE), Bool(FALSE), Undefined, Object("user"),
               [t |-> "string", b |-> FALSE, reason |-> "none"]}
Metas == {Undefined, Object("api"), Object("none")}

\* The metadata play() passes on: state when it is an object with a reason, else
\* meta, else { reason: 'external' }.
PlayMeta(state, meta) ==
    LET m == IF state.t = "object" /\ state.reason # "none" THEN state ELSE meta
    IN  IF m.t = "undefined" THEN Object("external") ELSE m

\* The switch of play() sending only PLAYING to 'pause'.
PlayRequestPlayingOnly(state, st) ==
    IF state.t = "bool" THEN (IF state.b THEN "play" ELSE "pause")
    ELSE IF st = "playing" THEN "pause" ELSE "play"

\* The request play() issues: by state when it is true or false, otherwise by the
\* state the engine reports.
PlayRequest(state, st) ==
    IF state.t = "bool" THEN (IF state.b THEN "play" ELSE "pause")
    ELSE IF st \in {"playing", "buffering"} THEN "pause" ELSE "play"

\* play(state, meta) on a facade whose engine reports st: the calls the engine
\* receives, in order.
PlayCalls(fac, state, meta, st) ==
    LET read == CallInternalResult(fac, "getState", << >>, st)
        req(e) == CallInternalResult(fac, PlayRequest(state, e), <<PlayMeta(state, meta)>>,
                                     "undefined").calls
    IN  IF state.t = "bool" THEN req(st) ELSE read.calls \o req(read.result)

\* pause(state, meta) inverting nothing.
PauseToPlaySameState(state, meta) ==
    IF state.t = "bool"
    THEN [state |-> state, meta |-> meta]
    ELSE [state |-> meta, meta |-> Undefined]

\* The play() call pause(state, meta) makes: play(!state, meta) for a boolean,
\* play(meta) otherwise.
PauseToPlay(state, meta) ==
    IF state.t = "bool"
    THEN [state |-> Bool(~state.b), meta |-> meta]
    ELSE [state |-> meta, meta |-> Undefined]

\* The log keeps the request the call before issued, when that was play() too.
Play(f, state, meta, st) ==
    /\ pc = "idle"
    /\ f \in Held
    /\ log' = [op |-> "play", f |-> f, state |-> state, meta |-> meta, st |-> st,
               calls |-> PlayCalls(facades[f], state, meta, st),
               prev |-> IF log.op = "play" THEN log.calls[Len(log.calls)].m ELSE "none"]
    /\ UNCHANGED <<instances, instancesCreated, uniqueIndex, facades, debug, strict, pc, cur, opts>>

Pause(f, state, meta, st) ==
    /\ pc = "idle"
    /\ f \in Held
    /\ LET a == PauseToPlay(state, meta)
       IN  log' = [op |-> "pause", f |-> f, state |-> state, meta |-> meta, st |-> st,
                   calls |-> PlayCalls(facades[f], a.state, a.meta, st)]
    /\ UNCHANGED <<instances, instancesCreated, uniqueIndex, facades, debug, strict, pc, cur, opts>>

(***************************************************************************)
(* Api.getPlugin, Api.addPlugin                                            *)
(***************************************************************************)
HasResize(inst) == inst = "resizable"

\* this.plugins && this.plugins[name]
GetPlugin(fac, name) == fac.plugins[name]

\* addPlugin: the instance is recorded and its addToPlayer subscribed to 'ready';
\* for an instance with a resize property the argument of the second on() is
\* 'resize'.pluginInstance.resizeHandler: a string has no pluginInstance property,
\* and reading resizeHandler of undefined is a TypeError.
AddPlugin(f, name, inst) ==
    /\ pc = "idle"
    /\ f \in Held
    /\ MaySubscribe(f, facades[f].listeners, 1)
    /\ facades' = [facades EXCEPT ![f].plugins[name] = inst,
                                  ![f].listeners = EventsOn(@, "ready", "addToPlayer")]
    /\ log' = [op |-> "addPlugin", f |-> f, name |-> name, inst |-> inst,
               threw |-> HasResize(inst)]
    /\ UNCHANGED <<instances, instancesCreated, uniqueIndex, debug, strict, pc, cur, opts>>

\* The engines that were handed a config: every one but the constructor's, which
\* setup() replaces before it configures anything.  Only these become ready.
Configured(fac) == 2..fac.gen

\* Engine g of facade f emits an event, at any later time.  The bridge
\* (setupController) is called only while its listeners are attached to that engine.
EngineEmit(f, g, type) ==
    /\ pc = "idle"
    /\ f \in 1..Len(facades)
    /\ g \in 1..facades[f].gen
    /\ type = "ready" => g \in Configured(facades[f])
    /\ IF g \in facades[f].bridged
       THEN LET b == Bridge(facades[f], type, debug)
            IN  /\ facades' = [facades EXCEPT ![f].qoe = b.qoe]
                /\ log' = [op |-> "emit", f |-> f, g |-> g, type |-> type,
                           invoked |-> b.invoked, threw |-> b.threw,
                           seen |-> b.seen, ticked |-> b.ticked]
       ELSE /\ log' = [op |-> "emit", f |-> f, g |-> g, type |-> type,
                       invoked |-> << >>, threw |-> FALSE,
                       seen |-> Stamp(type, NoPayload), ticked |-> FALSE]
            /\ UNCHANGED facades
    /\ UNCHANGED <<instances, instancesCreated, uniqueIndex, debug, strict, pc, cur, opts>>

\* api.trigger(name, args) called by a holder of the facade; it returns the facade.
TriggerCall(f, name, args) ==
    /\ pc = "idle"
    /\ f \in Held
    /\ LET r == Trigger(facades[f].listeners, name, debug)
       IN  log' = [op |-> "trigger", f |-> f, name |-> name,
                   invoked |-> r.invoked, threw |-> r.threw,
                   seen |-> Stamp(name, args), ret |-> IF r.threw THEN 0 ELSE f]
    /\ UNCHANGED <<instances, instancesCreated, uniqueIndex, facades, debug, strict, pc, cur, opts>>

SetDebug ==
    /\ pc = "idle"
    /\ debug' = ~debug
    /\ log' = [op |-> "debug"]
    /\ UNCHANGED <<instances, instancesCreated, uniqueIndex, facades, strict, pc, cur, opts>>

\* The facade's whole life: listeners, engines and their events, the debug flag.
\* The registry is reached through element queries only.
LifeQueries == {[t |-> "element", e |-> e] : e \in {"e1", "e2"}}

Next ==
    \/ \E q \in LifeQueries : SelectPlayer(q)
    \/ \E f \in 1..MaxFacades, o \in EventOptions : SetupBegin(f, o)
    \/ SetupReset
    \/ SetupNewController
    \/ SetupEvents
    \/ SetupForward
    \/ \E f \in 1..MaxFacades : RemoveBegin(f)
    \/ RemoveTrigger
    \/ RemoveReset
    \/ \E f \in 1..MaxFacades, l \in Subscriptions : On(f, l.name, l.cb)
    \/ \E f \in 1..MaxFacades, m \in CallNames : CallInternal(f, m, << >>, "v")
    \/ \E f \in 1..MaxFacades, g \in 1..MaxEngines, type \in EngineEvents : EngineEmit(f, g, type)
    \/ SetDebug

Spec == Init /\ [][Next]_vars

\* The registry under every form of query; no listener is ever subscribed.
NextRegistry ==
    \/ \E e \in Elements : Construct(e)
    \/ \E q \in Queries : SelectPlayer(q)
    \/ \E f \in 1..MaxFacades : SetupBegin(f, << >>)
    \/ SetupReset
    \/ SetupNewController
    \/ SetupEvents
    \/ SetupForward
    \/ \E f \in 1..MaxFacades : RemoveBegin(f)
    \/ RemoveTrigger
    \/ RemoveReset

SpecRegistry == Init /\ [][NextRegistry]_vars

\* The event path: facades built directly on one element, listeners that may throw
\* on the events an engine emits, engine events of two types, trigger() called from
\* outside with and without a payload object, the debug flag.
EventTypes == {"ready", "time"}
EventSubscriptions ==
    {[name |-> "ready", cb |-> "cbOk"], [name |-> "ready", cb |-> "cbThrow"],
     [name |-> "time", cb |-> "cbOk"]}

NextEvents ==
    \/ Construct("e1")
    \/ \E f \in 1..MaxFacades : SetupBegin(f, << >>)
    \/ SetupReset
    \/ SetupNewController
    \/ SetupEvents
    \/ SetupForward
    \/ \E f \in 1..MaxFacades : RemoveBegin(f)
    \/ RemoveTrigger
    \/ RemoveReset
    \/ \E f \in 1..MaxFacades, l \in EventSubscriptions : On(f, l.name, l.cb)
    \/ \E f \in 1..MaxFacades, g \in 1..MaxEngines, type \in EventTypes : EngineEmit(f, g, type)
    \/ \E f \in 1..MaxFacades, name \in EventTypes, args \in {EnginePayload, NoPayload} :
            TriggerCall(f, name, args)
    \/ SetDebug

SpecEvents == Init /\ [][NextEvents]_vars

\* The delegation path: callInternal with every kind of name, and plugins.
NextCalls ==
    \/ Construct("e1")
    \/ \E f \in 1..MaxFacades : SetupBegin(f, << >>)
    \/ SetupReset
    \/ SetupNewController
    \/ SetupEvents
    \/ SetupForward
    \/ \E f \in 1..MaxFacades : RemoveBegin(f)
    \/ RemoveTrigger
    \/ RemoveReset
    \/ \E f \in 1..MaxFacades, m \in AllCallNames, args \in CallArgs, ret \in EngineResults :
            CallInternal(f, m, args, ret)
    \/ \E f \in 1..MaxFacades, name \in PluginNames, inst \in PluginKinds : AddPlugin(f, name, inst)

SpecCalls == Init /\ [][NextCalls]_vars

\* play and pause with every kind of argument, whatever state the engine reports.
NextPlay ==
    \/ Construct("e1")
    \/ \E f \in 1..MaxFacades : SetupBegin(f, << >>)
    \/ SetupReset
    \/ SetupNewController
    \/ SetupEvents
    \/ SetupForward
    \/ \E f \in 1..MaxFacades, state \in PlayStates, meta \in Metas, st \in EngineStates :
            Play(f, state, meta, st)
    \/ \E f \in 1..MaxFacades, state \in PlayStates, meta \in Metas, st \in EngineStates :
            Pause(f, state, meta, st)

SpecPlay == Init /\ [][NextPlay]_vars

(***************************************************************************)
(* createConfig (the second module of api.js): the playlist                *)
(***************************************************************************)
\* Values of an option, tagged with their JavaScript type.
CfgAbsent == [k |-> "absent"]
CfgUndefined == [k |-> "undefined"]
CfgNull == [k |-> "null"]
CfgStr(str) == [k |-> "str", s |-> str]
CfgNum(num) == [k |-> "num", n |-> num]
CfgBool(b) == [k |-> "bool", b |-> b]
CfgList(items) == [k |-> "list", items |-> items]
\* An object that is no array; nested is its playlist property.
CfgFeed(nested) == [k |-> "feed", nested |-> nested]

\* A playlist item, by the fields it has.
Item(fields) == [k |-> "item", fields |-> fields]

\* The keys _.pick copies into the item of the legacy fallback.
AllowList ==
    {"title", "description", "type", "mediaid", "image", "file", "sources", "tracks",
     "preload"}

\* The top-level fields an options object may carry besides playlist.
OptionFields == {"title", "file", "sources", "width"}

PlaylistValues ==
    {CfgAbsent, CfgUndefined, CfgNull, CfgStr(""), CfgStr("0"), CfgStr("feed.json"),
     CfgNum(0), CfgBool(FALSE),
     CfgList(<< >>), CfgList(<<Item({"file"})>>),
     CfgFeed(CfgAbsent), CfgFeed(CfgStr("feed.json")),
     CfgFeed(CfgList(<< >>)), CfgFeed(CfgList(<<Item({"file"}), Item({"sources"})>>))}

\* A string whose characters the normalizer looks at, as the sequence of them.
CfgText(chars) == [k |-> "text", c |-> chars]
\* A skin object, by its name property; a localization object, by its strings.
CfgSkin(name) == [k |-> "skin", name |-> name]
CfgLoc(strings) == [k |-> "loc", strings |-> strings]

IsString(v) == v.k \in {"str", "text"}

Digit == {"0", "1", "2", "3", "4", "5", "6", "7", "8", "9"}
DigitVal(ch) ==
    CASE ch = "0" -> 0 [] ch = "1" -> 1 [] ch = "2" -> 2 [] ch = "3" -> 3 [] ch = "4" -> 4
      [] ch = "5" -> 5 [] ch = "6" -> 6 [] ch = "7" -> 7 [] ch = "8" -> 8 [] ch = "9" -> 9

\* The length of the longest prefix of cs made of digits.
DigitPrefix(cs) ==
    LET RECURSIVE Go(_)
        Go(i) == IF i <= Len(cs) /\ cs[i] \in Digit THEN Go(i + 1) ELSE i - 1
    IN  Go(1)

\* The number a sequence of digits reads as.
DigitsValue(ds) ==
    LET RECURSIVE Go(_, _)
        Go(acc, i) == IF i > Len(ds) THEN acc ELSE Go(acc * 10 + DigitVal(ds[i]), i + 1)
    IN  Go(0, 1)

\* Numbers are kept in hundredths: 1.25 is 125.  The first two decimals of a
\* sequence of digits after the point, in hundredths.
FractionValue(ds) ==
    (IF Len(ds) >= 1 THEN 10 * DigitVal(ds[1]) ELSE 0)
    + (IF Len(ds) >= 2 THEN DigitVal(ds[2]) ELSE 0)

NaN == [nan |-> TRUE, v |-> 0]

\* parseFloat: an optional sign, digits, an optional point and digits; whatever
\* follows is ignored, and without any digit the result is NaN.
ParseFloat(cs) ==
    LET signed == cs # << >> /\ cs[1] \in {"-", "+"}
        body == IF signed THEN SubSeq(cs, 2, Len(cs)) ELSE cs
        n == DigitPrefix(body)
        rest == SubSeq(body, n + 1, Len(body))
        frac == IF rest # << >> /\ rest[1] = "."
                THEN SubSeq(rest, 2, 1 + DigitPrefix(SubSeq(rest, 2, Len(rest))))
                ELSE << >>
        abs == 100 * DigitsValue(SubSeq(body, 1, n)) + FractionValue(frac)
    IN  IF n = 0 /\ frac = << >>
        THEN NaN
        ELSE [nan |-> FALSE, v |-> IF signed /\ cs[1] = "-" THEN 0 - abs ELSE abs]

\* Number(string) is a number for a string that is a number from end to end.
IsNumeric(cs) ==
    LET signed == cs # << >> /\ cs[1] \in {"-", "+"}
        body == IF signed THEN SubSeq(cs, 2, Len(cs)) ELSE cs
        dots == {i \in 1..Len(body) : body[i] = "."}
    IN  /\ \A i \in 1..Len(body) : body[i] \in Digit \cup {"."}
        /\ Cardinality(dots) <= 1
        /\ \E i \in 1..Len(body) : body[i] \in Digit

\* indexOf(ch) for one character, 0-based; -1 when it does not occur.
IndexOfChar(cs, ch) ==
    IF \E i \in 1..Len(cs) : cs[i] = ch
    THEN (CHOOSE i \in 1..Len(cs) : cs[i] = ch /\ \A j \in 1..(i-1) : cs[j] # ch) - 1
    ELSE -1

\* indexOf(pat) for a string, 0-based.
IndexOf(cs, pat) ==
    LET at(i) == i + Len(pat) - 1 <= Len(cs) /\ SubSeq(cs, i, i + Len(pat) - 1) = pat
    IN  IF \E i \in 1..Len(cs) : at(i)
        THEN (CHOOSE i \in 1..Len(cs) : at(i) /\ \A j \in 1..(i-1) : ~at(j)) - 1
        ELSE -1

\* /^\d*\.?\d+%$/
IsPercentage(cs) ==
    /\ Len(cs) >= 2
    /\ cs[Len(cs)] = "%"
    /\ cs[Len(cs) - 1] \in Digit
    /\ \A i \in 1..(Len(cs) - 1) : cs[i] \in Digit \cup {"."}
    /\ Cardinality({i \in 1..(Len(cs) - 1) : cs[i] = "."}) <= 1

\* utils.serialize: undefined becomes null; a string shorter than six characters
\* that reads 'true' or 'false' becomes that boolean, one that reads as a number
\* becomes that number; everything else is kept.
Serialize(v) ==
    IF v.k = "undefined" THEN CfgNull
    ELSE IF v.k = "str" /\ v.s = "0" THEN CfgNum(0)
    ELSE IF v.k = "text" /\ Len(v.c) < 6
    THEN IF v.c = <<"t", "r", "u", "e">> THEN CfgBool(TRUE)
         ELSE IF v.c = <<"f", "a", "l", "s", "e">> THEN CfgBool(FALSE)
         ELSE IF IsNumeric(v.c) THEN CfgNum(ParseFloat(v.c).v)
         ELSE v
    ELSE v

\* !value
CfgFalsy(v) ==
    \/ v.k \in {"absent", "undefined", "null"}
    \/ v.k = "str" /\ v.s = ""
    \/ v.k = "text" /\ v.c = << >>
    \/ v.k = "num" /\ v.n = 0
    \/ v.k = "bool" /\ ~v.b

(***************************************************************************)
(* createConfig: the layers and their merge                                *)
(***************************************************************************)
\* The option keys followed through the normalizer; present stands for the
\* legacy top-level fields (title, file, ...) a layer carries.
ConfigKeys ==
    {"mute", "width", "height", "aspectratio", "skin", "playbackRateControls",
     "playbackRates", "defaultPlaybackRate", "playlist", "localization"}

\* An options object: the keys of fields with their values, no other key.
Layer(fields) ==
    [key \in ConfigKeys \cup {"present"} |->
        IF key \in DOMAIN fields THEN fields[key]
        ELSE IF key = "present" THEN {} ELSE CfgAbsent]

NoOptions == Layer(<< >>)

\* The strings of Defaults.localization followed here.
LocKeys == {"play", "pause", "next"}
BuiltinLocalization == [play |-> "Play", pause |-> "Pause", next |-> "Next"]

Chars(str) ==
    CASE str = "seven" -> <<"s", "e", "v", "e", "n">>
      [] str = ".xml" -> <<".", "x", "m", "l">>
      [] str = "px" -> <<"p", "x">>

\* Defaults, lines 880-927.  Numbers are in hundredths.
Defaults ==
    Layer([mute |-> CfgBool(FALSE),
           width |-> CfgNum(48000),
           height |-> CfgNum(27000),
           skin |-> CfgText(Chars("seven")),
           playbackRateControls |-> CfgBool(FALSE),
           defaultPlaybackRate |-> CfgNum(100),
           localization |-> CfgLoc(BuiltinLocalization)])

\* _.extend({}, a, b): every key of b, with the value it has in b, over those of a.
Extend(a, b) ==
    [key \in ConfigKeys \cup {"present"} |->
        IF key = "present" THEN a.present \cup b.present
        ELSE IF b[key].k # "absent" THEN b[key] ELSE a[key]]

\* _.extend on two string tables.
ExtendStrings(a, b) ==
    [key \in DOMAIN a \cup DOMAIN b |-> IF key \in DOMAIN b THEN b[key] ELSE a[key]]

\* _deserialize, lines 929-933.
Deserialize(options) ==
    [key \in ConfigKeys \cup {"present"} |->
        IF key = "present" \/ options[key].k = "absent" THEN options[key]
        ELSE Serialize(options[key])]

\* Line 950: the built-in strings under the localization of the merged options.
Localize(localization) ==
    IF localization.k = "loc"
    THEN CfgLoc(ExtendStrings(BuiltinLocalization, localization.strings))
    ELSE CfgLoc(BuiltinLocalization)

MergeLayersOptionsFirst(defaults, persisted, options) ==
    LET allOptions == Deserialize(Extend(Extend(options, persisted), defaults))
    IN  Extend(Defaults, [allOptions EXCEPT !.localization = Localize(@)])

\* createConfig, lines 943-952: window.jwplayer.defaults, then the persisted
\* items, then the options, deserialized, over Defaults.
MergeLayers(defaults, persisted, options) ==
    LET allOptions == Deserialize(Extend(Extend(defaults, persisted), options))
    IN  Extend(Defaults, [allOptions EXCEPT !.localization = Localize(@)])

(***************************************************************************)
(* createConfig: the derived fields                                        *)
(***************************************************************************)
\* _normalizeSize, lines 935-940.  Reading .slice of null throws a TypeError.
NormalizeSize(val) ==
    IF val.k \in {"null", "undefined"}
    THEN [threw |-> TRUE, val |-> val]
    ELSE IF /\ val.k = "text"
            /\ Len(val.c) >= 2
            /\ SubSeq(val.c, Len(val.c) - 1, Len(val.c)) = Chars("px")
    THEN [threw |-> FALSE, val |-> CfgText(SubSeq(val.c, 1, Len(val.c) - 2))]
    ELSE [threw |-> FALSE, val |-> val]

\* h / w * 100 followed by '%', kept as the two numbers.
CfgPct(h, w) == [k |-> "pct", h |-> h, w |-> w]

\* _evaluateAspectRatio, lines 1043-1063.  A comparison with NaN is false, so a
\* part parseFloat cannot read passes the test of line 1059.
EvaluateAspectRatio(ar, width) ==
    IF ~(width.k = "text" /\ IndexOfChar(width.c, "%") # -1) THEN CfgNum(0)
    ELSE IF ar.k # "text" \/ ar.c = << >> THEN CfgNum(0)
    ELSE IF IsPercentage(ar.c) THEN ar
    ELSE LET index == IndexOfChar(ar.c, ":")
             w == ParseFloat(SubSeq(ar.c, 1, index))
             h == ParseFloat(SubSeq(ar.c, index + 2, Len(ar.c)))
         IN  IF index = -1 THEN CfgNum(0)
             ELSE IF (~w.nan /\ w.v <= 0) \/ (~h.nan /\ h.v <= 0) THEN CfgNum(0)
             ELSE IF w.nan \/ h.nan THEN CfgStr("NaN%")
             ELSE CfgPct(h.v, w.v)

\* Lines 971-982: a skin object is reduced to its name, or to the default name
\* when the name is no string; '.xml' is cut out of a skin string.
ResolveSkin(skin) ==
    LET named == IF skin.k = "skin"
                 THEN IF skin.name.k = "text" THEN skin.name ELSE Defaults.skin
                 ELSE skin
        at == IndexOf(named.c, Chars(".xml"))
    IN  IF named.k = "text" /\ at > 0
        THEN CfgText(SubSeq(named.c, 1, at) \o SubSeq(named.c, at + 5, Len(named.c)))
        ELSE named

\* Line 987.
ValidRate(value) == value.k = "num" /\ value.n >= 25 /\ value.n <= 400

DefaultRates == CfgList(<<CfgNum(50), CfgNum(100), CfgNum(125), CfgNum(150), CfgNum(200)>>)

\* Lines 984-1002: what playbackRateControls becomes.
ResolveRateControls(controls) ==
    IF CfgFalsy(controls) THEN controls
    ELSE IF controls.k = "bool" THEN DefaultRates
    ELSE IF controls.k = "list" /\ SelectSeq(controls.items, ValidRate) # << >>
    THEN CfgList(SelectSeq(controls.items, ValidRate))
    ELSE CfgBool(FALSE)

\* Lines 996-998 and 1009: playbackRates mirrors an enabled list; otherwise a
\* truthy value the options gave is kept and anything else becomes false.
ResolveRates(rates, controls) ==
    IF controls.k = "list" THEN controls
    ELSE IF CfgFalsy(rates) THEN CfgBool(FALSE)
    ELSE rates

ResolveDefaultRateAlways(rate, controls) ==
    IF CfgFalsy(controls) THEN CfgNum(100) ELSE rate

\* Lines 1004-1006: indexOf compares with ===.
ResolveDefaultRate(rate, controls) ==
    IF CfgFalsy(controls) \/ ~(\E i \in 1..Len(controls.items) : controls.items[i] = rate)
    THEN CfgNum(100)
    ELSE rate

\* Lines 1015-1035: a falsy playlist is replaced by one item picked from the
\* config; a feed object with a nested array becomes feedData and its array the
\* playlist; any other value is kept as it is.
ResolvePlaylist(p, present) ==
    IF CfgFalsy(p)
    THEN [playlist |-> CfgList(<<Item(present \cap AllowList)>>), feedData |-> CfgAbsent]
    ELSE IF p.k = "feed" /\ p.nested.k = "list"
    THEN [playlist |-> p.nested, feedData |-> p]
    ELSE [playlist |-> p, feedData |-> CfgAbsent]

\* createConfig, lines 942-1040.  threw: a TypeError left the function, and no
\* config was returned.
CreateConfig(options, persisted, defaults) ==
    LET merged == MergeLayers(defaults, persisted, options)
        width == NormalizeSize(merged.width)
        height == NormalizeSize(merged.height)
        ar == EvaluateAspectRatio(merged.aspectratio, width.val)
        controls == ResolveRateControls(merged.playbackRateControls)
        rate == ResolveDefaultRate(merged.defaultPlaybackRate, controls)
        list == ResolvePlaylist(merged.playlist, merged.present)
        threw == width.threw \/ height.threw
    IN  [threw |-> threw,
         merged |-> merged,
         mute |-> merged.mute,
         width |-> width.val,
         height |-> height.val,
         aspectratio |-> IF threw \/ CfgFalsy(ar) THEN CfgAbsent ELSE ar,
         skin |-> ResolveSkin(merged.skin),
         playbackRateControls |-> controls,
         playbackRates |-> ResolveRates(merged.playbackRates, controls),
         defaultPlaybackRate |-> rate,
         playbackRate |-> rate,
         localization |-> merged.localization,
         playlist |-> list.playlist,
         feedData |-> list.feedData]

(***************************************************************************)
(* createConfig: the calls                                                 *)
(***************************************************************************)
\* One call: the options, the items of the storage and window.jwplayer.defaults.
Call(options, persisted, defaults) ==
    [options |-> options, persisted |-> persisted, defaults |-> defaults]

\* Calls that differ in the playlist and the legacy fields of the options.
PlaylistCalls ==
    {Call(Layer([playlist |-> p, present |-> fields]), NoOptions, NoOptions) :
        p \in PlaylistValues, fields \in SUBSET OptionFields}

MuteValues == {CfgAbsent, CfgUndefined, CfgBool(TRUE), CfgText(<<"t", "r", "u", "e">>)}
LayerWidths == {CfgAbsent, CfgText(<<"3", "2", "0">>)}

\* Calls that differ in which layers define mute and width, and with what.
LayerCalls ==
    {Call(Layer([mute |-> m[3], width |-> w[2]]),
          Layer([mute |-> m[2]]),
          Layer([mute |-> m[1], width |-> w[1]])) :
        m \in [1..3 -> MuteValues], w \in [1..2 -> LayerWidths]}

LocalizationValues ==
    {CfgAbsent, CfgLoc([play |-> "Lecture"]), CfgLoc([pause |-> "Pausa"]),
     CfgLoc([play |-> "Abspielen", next |-> "Weiter"])}

\* Calls that differ in the localization of each layer.
LocalizationCalls ==
    {Call(Layer([localization |-> l[3]]),
          Layer([localization |-> l[2]]),
          Layer([localization |-> l[1]])) :
        l \in [1..3 -> LocalizationValues]}

RateControlValues ==
    {CfgAbsent, CfgUndefined, CfgNull, CfgBool(TRUE), CfgBool(FALSE), CfgNum(0),
     CfgNum(100), CfgStr(""), CfgText(<<"t", "r", "u", "e">>), CfgText(<<"f", "a", "s", "t">>),
     CfgList(<< >>),
     CfgList(<<CfgNum(10), CfgNum(100), CfgNum(1000), CfgNum(200)>>),
     CfgList(<<CfgNum(10), CfgNum(1000)>>),
     CfgList(<<CfgNum(400), CfgNum(25)>>),
     CfgList(<<CfgNum(24), CfgNum(401)>>),
     CfgList(<<CfgText(<<"2">>), CfgNum(150), CfgNull>>)}
RatesValues == {CfgAbsent, CfgList(<<CfgNum(100), CfgNum(200)>>)}
DefaultRateValues ==
    {CfgAbsent, CfgNull, CfgNum(100), CfgNum(150), CfgNum(200), CfgNum(1000),
     CfgText(<<"2">>), CfgText(<<"1", ".", "5">>)}

\* Calls that differ in the playback-rate options.
RateCalls ==
    {Call(Layer([playbackRateControls |-> c, playbackRates |-> r,
                 defaultPlaybackRate |-> d]), NoOptions, NoOptions) :
        c \in RateControlValues, r \in RatesValues, d \in DefaultRateValues}

WidthValues ==
    {CfgAbsent, CfgUndefined, CfgNull, CfgBool(TRUE), CfgNum(64000),
     CfgText(<<"4", "0", "0", "p", "x">>), CfgText(<<"5", "0", "%">>),
     CfgText(<<"1", "0", "0", "%", "p", "x">>)}
HeightValues == {CfgAbsent, CfgNull, CfgText(<<"2", "7", "0", "p", "x">>)}
AspectValues ==
    {CfgAbsent, CfgNull, CfgNum(150), CfgList(<< >>), CfgText(<< >>),
     CfgText(<<"1", "6", ":", "9">>), CfgText(<<"4", ":", "3">>),
     CfgText(<<"2", ".", "3", "5", ":", "1">>),
     CfgText(<<"5", "6", ".", "2", "5", "%">>), CfgText(<<"7", "5", "%">>),
     CfgText(<<"1", "6", "9">>), CfgText(<<"w", "i", "d", "e">>),
     CfgText(<<"a", ":", "9">>), CfgText(<<"1", "6", ":">>),
     CfgText(<<"0", ":", "9">>), CfgText(<<"1", "6", ":", "0">>),
     CfgText(<<"-", "1", "6", ":", "9">>), CfgText(<<"1", "6", ":", "-", "9">>)}

\* Calls that differ in the size and the aspect ratio.
SizeCalls ==
    {Call(Layer([width |-> w, height |-> h, aspectratio |-> ar]), NoOptions, NoOptions) :
        w \in WidthValues, h \in HeightValues, ar \in AspectValues}

SkinValues ==
    {CfgAbsent, CfgUndefined, CfgNull, CfgNum(700), CfgBool(TRUE),
     CfgText(<<"s", "i", "x">>), CfgText(<<"s", "i", "x", ".", "x", "m", "l">>),
     CfgText(<<".", "x", "m", "l">>),
     CfgSkin(CfgText(<<"s", "i", "x">>)), CfgSkin(CfgText(<<"s", "i", "x", ".", "x", "m", "l">>)),
     CfgSkin(CfgAbsent), CfgSkin(CfgNum(6))}

\* Calls that differ in the skin of the options and of window.jwplayer.defaults.
SkinCalls ==
    {Call(Layer([skin |-> s]), NoOptions, Layer([skin |-> d])) :
        s \in SkinValues, d \in {CfgAbsent, CfgText(<<"f", "i", "v", "e">>)}}

NormalizeConfig(options, persisted, defaults) ==
    /\ pc = "idle"
    /\ log' = [op |-> "config", options |-> options, persisted |-> persisted,
               defaults |-> defaults,
               config |-> CreateConfig(options, persisted, defaults)]
    /\ UNCHANGED <<instances, instancesCreated, uniqueIndex, facades, debug, strict, pc, cur, opts>>

NextConfig ==
    \E call \in PlaylistCalls : NormalizeConfig(call.options, call.persisted, call.defaults)

SpecConfig == Init /\ [][NextConfig]_vars

NextLayers ==
    \E call \in LayerCalls \cup LocalizationCalls :
        NormalizeConfig(call.options, call.persisted, call.defaults)

SpecLayers == Init /\ [][NextLayers]_vars

NextRates ==
    \E call \in RateCalls : NormalizeConfig(call.options, call.persisted, call.defaults)

SpecRates == Init /\ [][NextRates]_vars

NextSize ==
    \E call \in SizeCalls \cup SkinCalls :
        NormalizeConfig(call.options, call.persisted, call.defaults)

SpecSize == Init /\ [][NextSize]_vars

(***************************************************************************)
(* Properties                                                              *)
(***************************************************************************)
Facades == 1..Len(facades)
Registry == {instances[i] : i \in 1..Len(instances)}

\* Live: an engine is wired, its events are bridged and it was handed a config.
Live(fac) == fac.bridged # {} /\ fac.configured

\* C1: at every instant, the steps inside setup() and remove() included, at most
\* one engine of a facade has its event bridge attached, and it is the engine built
\* last; when setup() constructs the next engine, no bridge is attached any more.
C1_OneBridge ==
    /\ \A f \in Facades :
          /\ Cardinality(facades[f].bridged) <= 1
          /\ facades[f].bridged \subseteq {facades[f].gen}
    /\ pc = "setup_controller" => facades[cur].bridged = {}

\* A facade on which setup() ran twice: its third engine is the only one bridged.
C1_Witness ==
    \E f \in Facades : pc = "idle" /\ facades[f].gen = 3 /\ facades[f].bridged = {3}

\* C2: an event emitted by an engine that setup() has superseded, or that remove()
\* or setup() has torn down, reaches no listener of the facade.
C2_NoStaleEvent ==
    (log.op = "emit" /\ (\/ log.g < facades[log.f].gen
                         \/ log.g \in facades[log.f].destroyed))
        => log.invoked = << >>

\* A superseded engine emits 'ready' while a 'ready' listener is subscribed.
C2_Witness ==
    /\ log.op = "emit"
    /\ log.g < facades[log.f].gen
    /\ Matching(facades[log.f].listeners, log.type) # << >>
    /\ log.invoked = << >>
\* C3: the registry lists exactly the instances selectPlayer registered and remove()
\* was not called on, each once, in creation order, and no two of them have the
\* same uniqueId.
C3_RegistryOrder ==
    /\ Registry = {f \in Facades : facades[f].registered /\ ~facades[f].removed}
    /\ \A i, j \in 1..Len(instances) :
          i < j => /\ instances[i] < instances[j]
                   /\ facades[instances[i]].uniqueId # facades[instances[j]].uniqueId

\* The first registered instance was removed and the second is what the registry lists.
C3_Witness ==
    /\ pc = "idle"
    /\ Len(facades) = 2
    /\ facades[1].registered /\ facades[1].removed
    /\ instances = <<2>>

\* C4: every facade still has the uniqueId its constructor drew, also once the
\* registry has registered it; the ids grow strictly with the order of construction
\* and stay below the counter, so none is ever handed out again.
C4_UniqueIdStable ==
    /\ \A f \in Facades : facades[f].uniqueId = facades[f].born
                          /\ facades[f].uniqueId < instancesCreated
    /\ \A f, g \in Facades : f < g => facades[f].uniqueId < facades[g].uniqueId

\* An instance registered after an earlier one was removed.
C4_Witness ==
    \E f, g \in Facades :
        /\ f < g
        /\ facades[f].removed
        /\ facades[g].registered
        /\ g \in Registry
        /\ uniqueIndex # facades[g].uniqueId

\* The element a query denotes: the element itself, or the one with the given id.
QueryElement(q) ==
    IF q.t = "element" THEN q.e
    ELSE IF q.t = "string" THEN GetElementById(q.s)
    ELSE NoElem

\* The id a query looks an instance up by.
QueryId(q) ==
    IF q.t = "element" THEN ElemId(q.e)
    ELSE IF q.t = "string" THEN q.s
    ELSE "none"

\* C5 (as claimed): selectPlayer given an element, or the id of one, to which no
\* registered instance is bound returns without error a new facade bound to that
\* element, and the registry has grown by exactly that facade, at its end.
C5_CreatesAndRegisters ==
    (/\ log.op = "select"
     /\ QueryElement(log.q) # NoElem
     /\ \A i \in 1..Len(log.pre) : facades[log.pre[i]].elem # QueryElement(log.q))
        => /\ log.result = "created"
           /\ facades[log.f].elem = QueryElement(log.q)
           /\ instances = Append(log.pre, log.f)

\* C6 (as claimed): selectPlayer called with the element id of a registered instance,
\* as a string or on an element, returns that instance and leaves the registry as it was.
C6_ResolvesById ==
    (/\ log.op = "select"
     /\ log.q.t \in {"string", "element"})
        => \A i \in 1..Len(log.pre) :
              facades[log.pre[i]].id = QueryId(log.q)
                 => /\ log.result = "player"
                    /\ log.f = log.pre[i]
                    /\ instances = log.pre
RemoveListeners(fac) == Matching(fac.listeners, "remove")

C8_RemoveOrderAll ==
    log.op = "remove"
        => /\ log.f \notin Registry
           /\ log.step \in {"unregister", "trigger"}
                 => facades[log.f] = [log.before EXCEPT !.removed = TRUE]
           /\ log.step = "trigger"
                 => /\ log.invoked = RemoveListeners(log.before)
                    /\ pc = "remove_reset"
           /\ log.step = "done"
                 => /\ facades[log.f].listeners = << >>
                    /\ facades[log.f].bridged = {}
                    /\ facades[log.f].gen \in facades[log.f].destroyed

\* C8 (amended): as claimed when no 'remove' listener raises while the debug flag
\* is set; when one does, the listeners up to and including the first that raises
\* were called once, those after it are not called, and remove() ends there with
\* the instance out of the registry and no teardown.
C8_RemoveOrder ==
    log.op = "remove"
        => /\ log.f \notin Registry
           /\ log.step \in {"unregister", "trigger"}
                 => facades[log.f] = [log.before EXCEPT !.removed = TRUE]
           /\ log.step = "trigger"
                 => LET m == RemoveListeners(log.before)
                        t == FirstThrower(m)
                    IN  IF debug /\ t > 0
                        THEN log.threw /\ log.invoked = SubSeq(m, 1, t) /\ pc = "idle"
                        ELSE ~log.threw /\ log.invoked = m /\ pc = "remove_reset"
           /\ log.step = "done"
                 => /\ log.invoked = RemoveListeners(log.before)
                    /\ facades[log.f].listeners = << >>
                    /\ facades[log.f].bridged = {}
                    /\ facades[log.f].gen \in facades[log.f].destroyed

\* A remove() of a registered instance has returned after calling two listeners.
C8_Witness ==
    /\ log.op = "remove" /\ log.step = "done"
    /\ Len(log.invoked) = 2
    /\ log.f \in {log.pre[i] : i \in 1..Len(log.pre)}

\* C9 (as claimed): a facade remove() was called on, once it is not Live, is never
\* Live again.
C9_RemovedIsTerminal ==
    [][\A f \in Facades :
          (facades[f].removed /\ ~Live(facades[f])) => ~Live(facades'[f])]_vars

\* C10 (as claimed): after remove(), callInternal invokes no capability of the
\* engine remove() destroyed.
C10_NoCallOnDestroyed ==
    (log.op = "call" /\ facades[log.f].removed /\ log.g \in facades[log.f].destroyed)
        => ~log.invoked

\* C11 (as claimed): every listener subscribed when setup() is called is still
\* subscribed when setup() returns.
C11_ListenersSurviveSetup ==
    (log.op = "setup" /\ log.step = "done")
        => \A i \in 1..Len(log.had) :
              \E j \in 1..Len(facades[log.f].listeners) :
                  facades[log.f].listeners[j] = log.had[i]

\* C11 (amended): setup() clears every listener subscribed before it, before it
\* builds the engine; when it returns the listeners are exactly those its
\* options.events subscribed, and remove() clears the listeners as well.
C11_SetupClearsListeners ==
    /\ (log.op = "setup" /\ log.step \in {"reset", "controller"})
          => facades[log.f].listeners = << >>
    /\ (log.op = "setup" /\ log.step \in {"events", "done"})
          => facades[log.f].listeners = ApplyEventOptions(<< >>, log.o)
    /\ (log.op = "remove" /\ log.step = "done") => facades[log.f].listeners = << >>

\* setup() without options.events has returned on a facade that had listeners.
C11_Witness ==
    /\ log.op = "setup" /\ log.step = "done"
    /\ log.had # << >>
    /\ log.o = << >>
    /\ facades[log.f].listeners = << >>

\* The payload the listeners of an event of the wired engine are to be called with.
Forwarded(type) ==
    Stamp(type, [EnginePayload EXCEPT !.setupTime =
                                         IF type = "ready" THEN "between" ELSE "unset"])

\* C12 (as claimed): an event the wired engine emits is delivered once to every
\* listener subscribed to its type, with its type and payload; a 'ready' event
\* reaches them after the 'ready' tick and with setupTime attached.
C12_EveryListenerOnce ==
    (log.op = "emit" /\ log.g \in facades[log.f].bridged)
        => /\ log.invoked = Matching(facades[log.f].listeners, log.type)
           /\ log.seen = Forwarded(log.type)
           /\ log.type = "ready" => log.ticked /\ "ready" \in facades[log.f].qoe

\* C12 (amended): as claimed while the debug flag is unset or no listener of the
\* type raises; with the flag set, the delivery ends at the first listener that
\* raises and the listeners subscribed after it are not called.
C12_Delivery ==
    (log.op = "emit" /\ log.g \in facades[log.f].bridged)
        => LET m == Matching(facades[log.f].listeners, log.type)
               t == FirstThrower(m)
           IN  /\ IF debug /\ t > 0
                  THEN log.threw /\ log.invoked = SubSeq(m, 1, t)
                  ELSE ~log.threw /\ log.invoked = m
               /\ log.seen = Forwarded(log.type)
               /\ log.type = "ready" => log.ticked /\ "ready" \in facades[log.f].qoe

\* The engine setup() built emits 'ready' and two listeners are called with it.
C12_Witness ==
    /\ log.op = "emit" /\ log.type = "ready"
    /\ log.g \in facades[log.f].bridged
    /\ Len(log.invoked) = 2
    /\ log.seen.setupTime = "between"

\* C14: trigger(name, payload) with the debug flag unset calls every listener of
\* name, whether or not one of them raises, raises nothing and returns the facade;
\* with the flag set, the first exception a listener raises leaves trigger.
C14_TriggerModes ==
    log.op = "trigger"
        => LET m == Matching(facades[log.f].listeners, log.name)
               t == FirstThrower(m)
           IN  /\ ~debug => ~log.threw /\ log.invoked = m /\ log.ret = log.f
               /\ debug => /\ (log.threw <=> t > 0)
                           /\ t = 0 => (log.invoked = m /\ log.ret = log.f)
                           /\ t > 0 => (log.invoked = SubSeq(m, 1, t) /\ log.ret = 0)
               /\ log.seen.type = log.name

\* With the flag unset, a listener raised and the one subscribed after it was called.
C14_Witness ==
    /\ log.op = "trigger" /\ ~debug
    /\ Len(log.invoked) = 2
    /\ log.invoked[1].cb = "cbThrow"
    /\ log.ret = log.f

\* C13 (as claimed): callInternal targets the engine built last; a method the engine
\* exposes is called once with the arguments given and its result is returned, and
\* for any other name nothing is called, null is returned and nothing is raised.
C13_CallInternal ==
    log.op = "call"
        => /\ log.g = facades[log.f].gen
           /\ IF log.m \in ControllerMethods
              THEN /\ log.calls = <<[g |-> log.g, m |-> log.m, args |-> log.args]>>
                   /\ log.result = log.ret
                   /\ ~log.threw
              ELSE /\ log.calls = << >>
                   /\ log.result = "null"
                   /\ ~log.threw

\* The requests among the calls an engine received: all but the reads of its state.
Requests(calls) == SelectSeq(calls, LAMBDA c : c.m # "getState")

\* C15: play(state, meta) issues one request: 'play' for true and 'pause' for false
\* without reading the engine state; for any other state it reads the engine state
\* once and requests 'pause' when that is playing or buffering, 'play' otherwise.
\* So a play() that follows a request to play, with the engine reporting playing,
\* requests 'pause'.
C15_PlayRequest ==
    log.op = "play"
        => LET r == Requests(log.calls)
           IN  /\ Len(r) = 1
               /\ r[1].g = facades[log.f].gen
               /\ (log.state.t = "bool" /\ log.state.b) => r[1].m = "play" /\ log.calls = r
               /\ (log.state.t = "bool" /\ ~log.state.b) => r[1].m = "pause" /\ log.calls = r
               /\ log.state.t # "bool"
                     => /\ Len(log.calls) = 2 /\ log.calls[1].m = "getState"
                        /\ r[1].m = IF log.st \in {"playing", "buffering"}
                                    THEN "pause" ELSE "play"
               /\ (log.prev = "play" /\ log.state = Undefined /\ log.st = "playing")
                     => r[1].m = "pause"

\* play(true), then play() while the engine reports playing: 'pause' is requested.
C15_Witness ==
    /\ log.op = "play" /\ log.prev = "play"
    /\ log.state = Undefined /\ log.st = "playing"
    /\ Requests(log.calls)[1].m = "pause"

\* C16: pause(b, meta) for a boolean b requests 'pause' when b is true and 'play'
\* when it is false, as play(!b, meta) does, with meta or the default metadata;
\* pause(x, meta) for any other x reads the engine state and requests 'pause' when
\* it is playing or buffering and 'play' otherwise, as play(meta) does, with meta
\* when it carries a reason and the default metadata otherwise.
C16_PauseByPlay ==
    log.op = "pause"
        => LET r == Requests(log.calls)
               given == IF log.meta.t = "undefined" THEN Object("external") ELSE log.meta
               reasoned == IF log.meta.reason = "none" THEN Object("external") ELSE log.meta
           IN  /\ Len(r) = 1
               /\ log.state.t = "bool"
                     => /\ r[1].m = IF log.state.b THEN "pause" ELSE "play"
                        /\ r[1].args = <<given>>
                        /\ log.calls = PlayCalls(facades[log.f], Bool(~log.state.b),
                                                 log.meta, log.st)
               /\ log.state.t # "bool"
                     => /\ r[1].m = IF log.st \in {"playing", "buffering"}
                                    THEN "pause" ELSE "play"
                        /\ r[1].args = <<reasoned>>
                        /\ log.calls = PlayCalls(facades[log.f], log.meta, Undefined, log.st)

\* pause() on an engine that is idle requests 'play'.
C16_Witness ==
    /\ log.op = "pause"
    /\ log.state = Undefined /\ log.st = "idle"
    /\ Requests(log.calls)[1].m = "play"

\* C17 (as claimed): addPlugin(name, instance) raises nothing; afterwards
\* getPlugin(name) is the instance, its addToPlayer is subscribed to 'ready' and,
\* when it has a resize capability, its resize handler to 'resize'.
C17_AddPlugin ==
    log.op = "addPlugin"
        => LET ls == facades[log.f].listeners
           IN  /\ ~log.threw
               /\ GetPlugin(facades[log.f], log.name) = log.inst
               /\ \E i \in 1..Len(ls) : ls[i] = [name |-> "ready", cb |-> "addToPlayer"]
               /\ HasResize(log.inst)
                     => \E i \in 1..Len(ls) : ls[i] = [name |-> "resize", cb |-> "resizeHandler"]

\* C18: selectPlayer without a query returns the first instance of the registry, and
\* selectPlayer(n) for a number n within the registry returns the instance at
\* position n of the registry as it is then, after the removals so far; neither
\* changes the registry.
C18_PositionalLookup ==
    log.op = "select"
        => /\ (log.q.t = "none" /\ log.pre # << >>)
                 => /\ log.result = "player"
                    /\ log.f = log.pre[1]
                    /\ instances = log.pre
           /\ (log.q.t = "number" /\ log.q.n < Len(log.pre))
                 => /\ log.result = "player"
                    /\ log.f = log.pre[log.q.n + 1]
                    /\ instances = log.pre

\* The instance registered first was removed: position 0 is the second one.
C18_Witness ==
    /\ log.op = "select" /\ log.q.t = "number" /\ log.q.n = 0
    /\ Len(facades) = 2
    /\ facades[1].registered /\ facades[1].removed
    /\ log.result = "player" /\ log.f = 2

\* Whether a query names neither a registered instance nor a page element: no
\* query while the registry is empty, a number outside the registry, a string that
\* is the id of no registered instance and of no element, an object that is no element.
Unresolvable(q, reg) ==
    \/ q.t = "none" /\ reg = << >>
    \/ q.t = "number" /\ q.n >= Len(reg)
    \/ /\ q.t = "string"
       /\ \A i \in 1..Len(reg) : facades[reg[i]].id # q.s
       /\ GetElementById(q.s) = NoElem
    \/ q.t = "object"

\* C19 (as claimed): for such a query selectPlayer returns the degraded object,
\* raises nothing, constructs no facade and leaves the registry as it was.
C19_Degraded ==
    (log.op = "select" /\ Unresolvable(log.q, log.pre))
        => /\ log.result = "degraded"
           /\ instances = log.pre

\* C20 (as claimed): whatever the options, the playlist of the normalized config is
\* never undefined and never an empty list; when no playlist was supplied it is
\* the one item made of the allow-listed fields the options carry.
C20_PlaylistNonEmpty ==
    (log.op = "config" /\ ~log.config.threw)
        => /\ log.config.playlist.k \notin {"absent", "undefined", "null"}
           /\ log.config.playlist.k = "list" => log.config.playlist.items # << >>
           /\ log.options.playlist.k = "absent"
                 => log.config.playlist = CfgList(<<Item(log.options.present \cap AllowList)>>)

\* The subscriptions the entries of options.events are to make: one per entry whose
\* key names a method of the facade, with the entry's value, in order.
Bound(o) ==
    LET named == SelectSeq(o, LAMBDA entry : entry.key = "onReady")
    IN  [i \in 1..Len(named) |-> [name |-> "ready", cb |-> named[i].val]]

\* C28: when setup() has applied options.events, the listeners are exactly one per
\* entry whose key names a method of the facade, subscribed with the entry's value
\* (the other entries left nothing); at that point the earlier listeners are gone,
\* the new engine's bridge is attached and the engine has no config yet, and they
\* are still subscribed when setup() has forwarded the config.
C28_EventOptions ==
    /\ (log.op = "setup" /\ log.step = "events")
          => /\ facades[log.f].listeners = Bound(log.o)
             /\ facades[log.f].bridged = {facades[log.f].gen}
             /\ facades[log.f].gen \notin facades[log.f].destroyed
             /\ ~facades[log.f].configured
    /\ (log.op = "setup" /\ log.step = "done")
          => /\ facades[log.f].listeners = Bound(log.o)
             /\ facades[log.f].configured
    /\ (log.op = "setup" /\ log.step \in {"tick", "reset", "controller"})
          => \A i \in 1..Len(facades[log.f].listeners) :
                \E j \in 1..Len(log.had) : log.had[j] = facades[log.f].listeners[i]

\* setup() with an entry that names no method and one that names onReady has
\* returned on a facade that had another listener.
C28_Witness ==
    /\ log.op = "setup" /\ log.step = "done"
    /\ Len(log.o) = 2
    /\ log.had # << >>
    /\ facades[log.f].listeners = <<[name |-> "ready", cb |-> "cbOk"]>>

\* C29 (as claimed): a facade on which setup() was never called has no engine: none
\* was constructed for it and no bridge is attached.
C29_NoEngineBeforeSetup ==
    \A f \in Facades :
        "setup" \notin facades[f].qoe
            => facades[f].gen = 0 /\ facades[f].bridged = {}

\* C29 (amended): a facade on which setup() was never called has exactly the engine
\* its constructor built, with the bridge attached to it until remove() detaches
\* it, and that engine was handed no config; every facade has had an engine since
\* its construction, and a facade with a configured engine has had setup() called.
C29_ConstructorEngine ==
    \A f \in Facades :
        /\ facades[f].gen >= 1
        /\ "setup" \notin facades[f].qoe
              => /\ facades[f].gen = 1
                 /\ ~facades[f].configured
                 /\ ~facades[f].removed => facades[f].bridged = {1}
                 /\ facades[f].bridged \subseteq {1}
        /\ facades[f].configured => "setup" \in facades[f].qoe /\ facades[f].gen >= 2

\* A facade was constructed and nothing else was called on it.
C29_Witness ==
    \E f \in Facades :
        /\ facades[f].qoe = {"init"}
        /\ ~facades[f].removed
        /\ facades[f].bridged = {1}

\* C30 (as claimed): when a remove() call has ended, by returning or by a listener's
\* exception, the facade has no listener, no bridge is attached and its engine was
\* destroyed.
C30_RemoveAlwaysTearsDown ==
    (log.op = "remove" /\ pc = "idle")
        => /\ facades[log.f].listeners = << >>
           /\ facades[log.f].bridged = {}
           /\ facades[log.f].gen \in facades[log.f].destroyed

\* The value of key in the highest of the three layers of the last call that
\* defines it; absent when none does.
TopValue(key) ==
    IF log.options[key].k # "absent" THEN log.options[key]
    ELSE IF log.persisted[key].k # "absent" THEN log.persisted[key]
    ELSE log.defaults[key]

\* C21: for every key but localization, the merged config holds the (deserialized)
\* value of the highest layer that defines the key, in the order built-in defaults
\* < window.jwplayer.defaults < persisted items < options; mute, which no later
\* step touches, has that value in the result.
C21_LayerPrecedence ==
    log.op = "config"
        => /\ \A key \in ConfigKeys \ {"localization"} :
                 log.config.merged[key] =
                     IF TopValue(key).k = "absent" THEN Defaults[key]
                     ELSE Serialize(TopValue(key))
           /\ log.config.mute = log.config.merged.mute

\* The persisted items say mute 'true', window.jwplayer.defaults defines mute
\* too and the options do not: the config has mute true.
C21_Witness ==
    /\ log.op = "config"
    /\ log.options.mute.k = "absent"
    /\ log.persisted.mute = CfgText(<<"t", "r", "u", "e">>)
    /\ log.defaults.mute.k = "undefined"
    /\ log.config.mute = CfgBool(TRUE)

\* C22 (as claimed): every localization string comes from the options when their
\* localization has the key, else from the localization of window.jwplayer.defaults
\* when that has the key, else from the built-in strings.
C22_LocalizationLayers ==
    (log.op = "config" /\ log.persisted.localization.k = "absent")
        => \A key \in LocKeys :
              LET explicit == log.options.localization
                  process == log.defaults.localization
              IN  log.config.localization.strings[key] =
                      IF explicit.k = "loc" /\ key \in DOMAIN explicit.strings
                      THEN explicit.strings[key]
                      ELSE IF process.k = "loc" /\ key \in DOMAIN process.strings
                      THEN process.strings[key]
                      ELSE BuiltinLocalization[key]

\* C23 (as claimed): a list given as playbackRateControls is reduced to its numbers
\* in [0.25, 4], in their order, and playbackRates is that list; true gives the
\* default list; a list without a valid entry and every other input give false.
C23_RateControls ==
    log.op = "config"
        => LET given == log.config.merged.playbackRateControls
               valid == SelectSeq(given.items, ValidRate)
               out == log.config.playbackRateControls
           IN  IF given.k = "list" /\ valid # << >>
               THEN out = CfgList(valid) /\ log.config.playbackRates = CfgList(valid)
               ELSE IF given = CfgBool(TRUE)
               THEN out = CfgList(<<CfgNum(50), CfgNum(100), CfgNum(125), CfgNum(150),
                                    CfgNum(200)>>)
               ELSE out = CfgBool(FALSE)

\* C24 (as claimed): the config has a playbackRates field only when
\* playbackRateControls resolved to a list, and then it is that list, whatever
\* playbackRates the options carried.
C24_RatesOnlyWhenEnabled ==
    log.op = "config"
        => IF log.config.playbackRateControls.k = "list"
           THEN log.config.playbackRates = log.config.playbackRateControls
           ELSE log.config.playbackRates.k = "absent"

\* The width of the config is a string with a '%'.
PercentWidth == log.config.width.k = "text" /\ IndexOfChar(log.config.width.c, "%") # -1

\* The two parts of a "W:H" string, as parseFloat reads them.
RatioParts(cs) ==
    [w |-> ParseFloat(SubSeq(cs, 1, IndexOfChar(cs, ":"))),
     h |-> ParseFloat(SubSeq(cs, IndexOfChar(cs, ":") + 2, Len(cs)))]

\* C25 (as claimed): aspectratio is absent unless the width is a percentage
\* string; then a bare percentage is kept, "W:H" with two positive numbers gives
\* H / W * 100 percent ("16:9" gives 56.25%), and every other value leaves the
\* field absent.
C25_AspectRatio ==
    (log.op = "config" /\ ~log.config.threw)
        => LET ar == log.config.merged.aspectratio
               out == log.config.aspectratio
           IN  IF ~PercentWidth \/ ar.k # "text" THEN out.k = "absent"
               ELSE IF IsPercentage(ar.c) THEN out = ar
               ELSE IF /\ IndexOfChar(ar.c, ":") # -1
                       /\ ~RatioParts(ar.c).w.nan /\ RatioParts(ar.c).w.v > 0
                       /\ ~RatioParts(ar.c).h.nan /\ RatioParts(ar.c).h.v > 0
               THEN /\ out.k = "pct"
                    /\ out.h * RatioParts(ar.c).w.v = RatioParts(ar.c).h.v * out.w
                    /\ ar.c = <<"1", "6", ":", "9">> => out.h * 10000 = 5625 * out.w
               ELSE out.k = "absent"

\* C26 (as claimed): createConfig never throws, and in the config it returns
\* width, height, skin, playlist and defaultPlaybackRate are neither null nor
\* undefined.
C26_NeverThrows ==
    log.op = "config"
        => /\ ~log.config.threw
           /\ \A key \in {"width", "height", "skin", "playlist", "defaultPlaybackRate"} :
                 log.config[key].k \notin {"absent", "undefined", "null"}

\* C27: defaultPlaybackRate is the configured value when playbackRateControls
\* resolved to a list that has it as an element, and 1 in every other case;
\* playbackRate is defaultPlaybackRate.
C27_DefaultPlaybackRate ==
    log.op = "config"
        => LET configured == log.config.merged.defaultPlaybackRate
               rates == log.config.playbackRateControls
           IN  /\ log.config.defaultPlaybackRate =
                      IF /\ rates.k = "list"
                         /\ \E i \in 1..Len(rates.items) : rates.items[i] = configured
                      THEN configured
                      ELSE CfgNum(100)
               /\ log.config.playbackRate = log.config.defaultPlaybackRate

\* The options ask for the default rates and a default rate of '1.5', and the
\* config has 1.5; in another call they ask for 10, and the config has 1.
C27_Witness ==
    /\ log.op = "config"
    /\ log.options.playbackRateControls = CfgBool(TRUE)
    /\ \/ /\ log.options.defaultPlaybackRate = CfgText(<<"1", ".", "5">>)
          /\ log.config.playbackRate = CfgNum(150)
       \/ /\ log.options.defaultPlaybackRate = CfgNum(1000)
          /\ log.config.playbackRate = CfgNum(100)

\* C31: no two instances of the registry have the same element id, and when
\* selectPlayer constructed a facade, no instance registered at the call had the
\* id of its element.
C31_OneInstancePerId ==
    /\ \A i, j \in 1..Len(instances) :
          i # j => facades[instances[i]].id # facades[instances[j]].id
    /\ (log.op = "select" /\ log.result = "created")
          => \A i \in 1..Len(log.pre) : facades[log.pre[i]].id # facades[log.f].id

\* Two instances are registered, one of them on an element without id, and
\* selectPlayer with another element without id returned that instance.
C31_Witness ==
    /\ Len(instances) = 2
    /\ log.op = "select"
    /\ log.q = [t |-> "element", e |-> "e3"]
    /\ log.result = "player"
    /\ facades[log.f].elem = "e2"

\* The query is the element e or the id of e.
Targets(q, e) ==
    \/ q.t = "element" /\ q.e = e
    \/ q.t = "string" /\ q.s = ElemId(e)

\* C32 (as claimed): when selectPlayer is called with an element, or its id, whose
\* registered instance was removed, it does not return the removed facade; unless
\* an instance registered since is bound to the element, it constructs and
\* registers a facade whose uniqueId is greater than every earlier one.
C32_FreshAfterRemove ==
    \A g \in Facades :
        (/\ log.op = "select"
         /\ facades[g].registered
         /\ facades[g].removed
         /\ Targets(log.q, facades[g].elem))
            => /\ log.f # g
               /\ (\A i \in 1..Len(log.pre) : facades[log.pre[i]].elem # facades[g].elem)
                     => /\ log.result = "created"
                        /\ log.f \in Registry
                        /\ \A h \in Facades \ {log.f} :
                              facades[h].uniqueId < facades[log.f].uniqueId

\* The registry without the facade f.
Others(reg, f) == SelectSeq(reg, LAMBDA x : x # f)

\* C33: a step of setup() or remove() on a facade changes no other facade (its
\* listeners, its engine and the bridge stay as they were) and leaves the other
\* instances in the registry in their order; a step of setup() leaves the
\* registry as it was.
C33_OthersUnchanged ==
    [][log'.op \in {"setup", "remove"}
          => /\ Len(facades') = Len(facades)
             /\ \A g \in Facades \ {log'.f} : facades'[g] = facades[g]
             /\ Others(instances', log'.f) = Others(instances, log'.f)
             /\ log'.op = "setup" => instances' = instances]_vars

\* remove() has run on one of two registered instances; the other one is still
\* registered, with its listener and its engine bridged.
C33_Witness ==
    /\ log.op = "remove"
    /\ log.step = "done"
    /\ Len(log.pre) = 2
    /\ \E g \in Facades \ {log.f} :
          /\ instances = <<g>>
          /\ facades[g].listeners # << >>
          /\ facades[g].bridged = {facades[g].gen}
====
